---- MODULE Spec2Model ----
(***************************************************************************)
(* TTL + LRU cache of brian-gavin/go-lru, shared-entry design              *)
(* (src/unnamed/part_000): a binary min-heap of *item ordered by a lazy    *)
(* expiration comparator, co-maintained with a key -> *item map, behind    *)
(* one sync.Mutex.                                                         *)
(*                                                                         *)
(* Pointers are modelled by object names: mem maps a name to the item it   *)
(* points to, pq and keyToItem hold names.  An object is named by the key  *)
(* it was allocated for: Put allocates only for a key that is not          *)
(* resident, and an object taken out of the heap is dropped when the call  *)
(* returns, so no two objects alive at once were allocated for one key.    *)
(* Heap positions keep Go's 0-based numbering; pq[i + 1] is Go's pq[i].    *)
(*                                                                         *)
(* Specifications: Spec (one caller, calls at one clock reading), SpecP    *)
(* (Put calls alone), SpecH (Spec with the values written kept as          *)
(* history), SpecC (concurrent callers, step by step under the mutex),     *)
(* SpecD (SpecC with a callback that may panic or call back), SpecE (the   *)
(* lru-item + value-map design of src/lru.go run beside this one).         *)
(***************************************************************************)
EXTENDS Integers, Sequences, FiniteSets, TLC

\* ---------------------------------------------------------------- bounds
NumVals == 2
MaxCap == 2
TTL == 1
MaxTime == 2
\* the concurrent specification SpecC: callers, largest capacity, clock
NumThreads == 2
ConcCap == 1
ConcMaxTime == 2

\* one key more than the largest capacity, so that a full cache can be
\* offered a new key
Keys == 1..(MaxCap + 1)
Vals == 1..NumVals
\* New is called with any int; -1 and 0 stand for the non-positive ones.
Sizes == (0 - 1)..MaxCap
Threads == 1..NumThreads
ConcKeys == 1..(ConcCap + 1)
ConcSizes == 0..ConcCap

\* the zero value of V returned by a Get miss (var v V)
ZeroVal == 0
NoItems == [keyToItem |-> <<>>, pq |-> <<>>, mem |-> <<>>]
\* the other design's Cache: items (map[K]cacheItem), lru (pq, with the
\* lruItems it points to in mem)
NoLru == [items |-> <<>>, pq |-> <<>>, mem |-> <<>>]

VARIABLES
    handle,     \* "none" before New, "ok" once New returned, "failed" if New panicked
    size,       \* Cache.size
    ttl,        \* Cache.ttl
    items,      \* Cache.items: [keyToItem, pq] plus the objects they point to (mem)
    now,        \* the clock read by time.Now()
    last,       \* what the last completed call was, returned and handed to onEvicted
    mu,         \* Cache.mu: 0 when free, else the thread holding it
    th,         \* per thread: the call in progress and its position in it
    seen,       \* history, kept by SpecP: the distinct keys handed to Put so far
    written,    \* history, kept by SpecH: for each resident key, the value of
                \* the latest Put on it
    alt         \* SpecE: a cache of the lru-item + value-map design (src/lru.go)
                \* run beside this one, and what its last call returned

vars == <<handle, size, ttl, items, now, last, mu, th, seen, written, alt>>

\* ---------------------------------------------------------------- items
ItemsLen(is) == Len(is.pq)

\* the item at heap position i (0-based)
At(is, i) == is.mem[is.pq[i + 1]]

Expired(it, t) == it.expire < t

\* the operands of the second Before exchanged
LessSwapped(is, i, j, t) ==
    Expired(At(is, i), t) \/ At(is, j).expire < At(is, i).expire

\* a.expire.Before(time.Now()) || a.expire.Before(b.expire)
Less(is, i, j, t) ==
    Expired(At(is, i), t) \/ At(is, i).expire < At(is, j).expire

SwapNoIndex(is, i, j) ==
    [is EXCEPT !.pq = [@ EXCEPT ![i + 1] = is.pq[j + 1], ![j + 1] = is.pq[i + 1]]]

Swap(is, i, j) ==
    LET pi == is.pq[i + 1]
        pj == is.pq[j + 1]
    IN  [is EXCEPT !.pq = [@ EXCEPT ![i + 1] = pj, ![j + 1] = pi],
                   !.mem = [@ EXCEPT ![pj].index = i, ![pi].index = j]]

\* restriction of a function to its domain minus one point
Without(f, x) == [y \in (DOMAIN f) \ {x} |-> f[y]]
With(f, x, y) == [z \in (DOMAIN f) \cup {x} |-> IF z = x THEN y ELSE f[z]]

\* items.Push: item.index = n; keyToItem[item.k] = item; pq = append(pq, item)
itemsPushIndex(is, x) == [is EXCEPT !.mem = [@ EXCEPT ![x].index = ItemsLen(is)]]
itemsPushMap(is, x) == [is EXCEPT !.keyToItem = With(@, is.mem[x].k, x)]
itemsPushAppend(is, x) == [is EXCEPT !.pq = Append(@, x)]
itemsPush(is, x) == itemsPushAppend(itemsPushMap(itemsPushIndex(is, x), x), x)

\* items.Pop: item = pq[n-1]; item.index = -1; pq = pq[0:n-1]; delete(keyToItem, item.k)
itemsPopShrink(is) ==
    LET x == is.pq[ItemsLen(is)]
    IN  [is EXCEPT !.mem = [@ EXCEPT ![x].index = 0 - 1],
                   !.pq = SubSeq(@, 1, ItemsLen(is) - 1)]
itemsPopNoDelete(is, x) == is
itemsPopDelete(is, x) == [is EXCEPT !.keyToItem = Without(@, is.mem[x].k)]
itemsPop(is) ==
    LET x == is.pq[ItemsLen(is)]
    IN  [is |-> itemsPopDelete(itemsPopShrink(is), x), x |-> x]

\* ------------------------------------------------- container/heap
\* Go's (j - 1) / 2 truncates towards zero: the parent of 0 is 0 (and that
\* of -1 is -1).
Parent(j) == IF j = 0 THEN 0 ELSE (j - 1) \div 2

RECURSIVE up(_, _, _)
up(is, j, t) ==
    LET i == Parent(j)
    IN  IF i = j \/ ~Less(is, j, i, t)
        THEN is
        ELSE up(Swap(is, i, j), i, t)

\* the loop of down, from position i: the items and the final position
RECURSIVE downLoop(_, _, _, _)
downLoop(is, i, n, t) ==
    LET j1 == 2 * i + 1
        j2 == j1 + 1
        j == IF j2 < n /\ Less(is, j2, j1, t) THEN j2 ELSE j1
    IN  IF j1 >= n \/ j1 < 0
        THEN [is |-> is, i |-> i]
        ELSE IF ~Less(is, j, i, t)
             THEN [is |-> is, i |-> i]
             ELSE downLoop(Swap(is, i, j), j, n, t)

\* down(h, i0, n): [is, moved]
downStays(is, i0, n, t) == [is |-> is, moved |-> FALSE]
down(is, i0, n, t) ==
    LET r == downLoop(is, i0, n, t)
    IN  [is |-> r.is, moved |-> r.i > i0]

\* heap.Fix(h, i): if !down(h, i, h.Len()) { up(h, i) }
FixNoSift(is, i, t) == is
HeapFix(is, i, t) ==
    LET d == down(is, i, ItemsLen(is), t)
    IN  IF d.moved THEN d.is ELSE up(d.is, i, t)

\* heap.Push(h, x): h.Push(x); up(h, h.Len()-1)
HeapPush(is, x, t) == up(itemsPush(is, x), ItemsLen(is), t)

\* heap.Pop(h): n := h.Len() - 1; h.Swap(0, n); down(h, 0, n); return h.Pop()
\* (called on a non-empty heap; Swap(0, -1) panics on an empty one)
HeapPop(is, t) ==
    LET n == ItemsLen(is) - 1
    IN  itemsPop(down(Swap(is, 0, n), 0, n, t).is)

\* heap.Remove(h, i): the swap and sift part, before h.Pop()
HeapRemoveSift(is, i, t) ==
    LET n == ItemsLen(is) - 1
        s == Swap(is, i, n)
        d == down(s, i, n, t)
    IN  IF n = i THEN is
        ELSE IF d.moved THEN d.is ELSE up(d.is, i, t)

HeapRemove(is, i, t) == itemsPop(HeapRemoveSift(is, i, t))

\* ------------------------------------------------------------- Cache
\* r is the sequence of clock readings a call takes, in the order it takes
\* them: every time.Now() of the call (one per heap operation's comparisons).
NoCalls == <<>>
Result(is, calls, found, val, panic, stale) ==
    [is |-> is, calls |-> calls, found |-> found, val |-> val,
     panic |-> panic, stale |-> stale]

\* the popped object is referenced by nothing once the call returns
Free(is, x) == [is EXCEPT !.mem = Without(@, x)]

\* evict: x := heap.Pop(&c.items); c.onEvicted(evict.v)
\* heap.Pop on an empty heap panics in Swap(0, -1) (index out of range)
evictNoCallback(is, t) ==
    IF ItemsLen(is) = 0
    THEN [is |-> is, calls |-> NoCalls, panic |-> TRUE, stale |-> FALSE]
    ELSE LET p == HeapPop(is, t)
         IN  [is |-> Free(p.is, p.x), calls |-> NoCalls, panic |-> FALSE,
              stale |-> Expired(p.is.mem[p.x], t)]
evict(is, t) ==
    IF ItemsLen(is) = 0
    THEN [is |-> is, calls |-> NoCalls, panic |-> TRUE, stale |-> FALSE]
    ELSE LET p == HeapPop(is, t)
         IN  [is |-> Free(p.is, p.x), calls |-> <<p.is.mem[p.x].v>>, panic |-> FALSE,
              stale |-> Expired(p.is.mem[p.x], t)]

\* refresh: item.expire = time.Now().Add(c.ttl); heap.Fix(&c.items, item.index)
refreshNoBump(is, x, d, t1, t2) == HeapFix(is, is.mem[x].index, t2)
refresh(is, x, d, t1, t2) ==
    LET bumped == [is EXCEPT !.mem = [@ EXCEPT ![x].expire = t1 + d]]
    IN  HeapFix(bumped, bumped.mem[x].index, t2)

\* update: item.v = v; c.refresh(item)
updateKeepsValue(is, x, v, d, t1, t2) == refresh(is, x, d, t1, t2)
update(is, x, v, d, t1, t2) ==
    refresh([is EXCEPT !.mem = [@ EXCEPT ![x].v = v]], x, d, t1, t2)

\* add: heap.Push(&c.items, item)
addNothing(is, x, t) == is
add(is, x, t) == HeapPush(is, x, t)

\* delete: heap.Remove(&c.items, item.index); c.onEvicted(item.v)
delete(is, x, t) ==
    LET p == HeapRemove(is, is.mem[x].index, t)
    IN  [is |-> Free(p.is, p.x), calls |-> <<is.mem[x].v>>]

\* c.items.Len() == c.size
AtCapacityNever(is, sz) == FALSE
AtCapacityEarly(is, sz) == ItemsLen(is) >= sz - 1
AtCapacityAlways(is, sz) == TRUE
AtCapacity(is, sz) == ItemsLen(is) = sz

\* &item[K, V]{v: v, k: k, expire: time.Now().Add(c.ttl)}: a new object
NewId(is, k) == k
AllocZeroVal(is, x, k, v, e) ==
    [is EXCEPT !.mem = With(@, x, [k |-> k, v |-> ZeroVal, expire |-> e, index |-> 0])]
Alloc(is, x, k, v, e) ==
    [is EXCEPT !.mem = With(@, x, [k |-> k, v |-> v, expire |-> e, index |-> 0])]

\* Cache.Put, without the lock
PutOp(is, sz, d, k, v, r) ==
    IF k \in DOMAIN is.keyToItem
    THEN Result(update(is, is.keyToItem[k], v, d, r[1], r[2]), NoCalls, FALSE, ZeroVal,
                FALSE, Expired(is.mem[is.keyToItem[k]], r[1]))
    ELSE IF AtCapacity(is, sz)
         THEN LET e == evict(is, r[1])
                  x == NewId(e.is, k)
              IN  IF e.panic
                  THEN Result(is, NoCalls, FALSE, ZeroVal, TRUE, FALSE)
                  ELSE Result(add(Alloc(e.is, x, k, v, r[2] + d), x, r[3]),
                              e.calls, FALSE, ZeroVal, FALSE, e.stale)
         ELSE LET x == NewId(is, k)
              IN  Result(add(Alloc(is, x, k, v, r[1] + d), x, r[2]),
                         NoCalls, FALSE, ZeroVal, FALSE, FALSE)

\* a Get that purges the entry it finds expired
GetOpSweeps(is, d, k, r) ==
    IF k \notin DOMAIN is.keyToItem
    THEN Result(is, NoCalls, FALSE, ZeroVal, FALSE, FALSE)
    ELSE LET x == is.keyToItem[k]
         IN  IF Expired(is.mem[x], r[1])
             THEN Result(delete(is, x, r[1]).is, <<is.mem[x].v>>, FALSE, ZeroVal, FALSE, TRUE)
             ELSE Result(refresh(is, x, d, r[1], r[2]), NoCalls, TRUE, is.mem[x].v,
                         FALSE, FALSE)

\* Cache.Get, without the lock
GetOp(is, d, k, r) ==
    IF k \notin DOMAIN is.keyToItem
    THEN Result(is, NoCalls, FALSE, ZeroVal, FALSE, FALSE)
    ELSE LET x == is.keyToItem[k]
         IN  Result(refresh(is, x, d, r[1], r[2]), NoCalls, TRUE, is.mem[x].v,
                    FALSE, Expired(is.mem[x], r[1]))

RemoveOpCallsBack(is, k, r) ==
    IF k \notin DOMAIN is.keyToItem
    THEN Result(is, <<ZeroVal>>, FALSE, ZeroVal, FALSE, FALSE)
    ELSE LET p == delete(is, is.keyToItem[k], r[1])
         IN  Result(p.is, p.calls, FALSE, ZeroVal, FALSE,
                    Expired(is.mem[is.keyToItem[k]], r[1]))

\* Cache.Remove, without the lock
RemoveOp(is, k, r) ==
    IF k \notin DOMAIN is.keyToItem
    THEN Result(is, NoCalls, FALSE, ZeroVal, FALSE, FALSE)
    ELSE LET p == delete(is, is.keyToItem[k], r[1])
         IN  Result(p.is, p.calls, FALSE, ZeroVal, FALSE,
                    Expired(is.mem[is.keyToItem[k]], r[1]))

\* Under Spec a call runs at one instant: all its readings are the clock's
\* value.  (SpecC lets the clock tick between the steps of a call.)
Instant == <<now, now, now>>

Resident(is) == DOMAIN is.keyToItem
Objects(is) == {is.pq[i] : i \in 1..ItemsLen(is)}
\* the item stored under a resident key
ItemOf(is, k) == is.mem[is.keyToItem[k]]

\* ------------------------------------------------------------ actions
Idle == [pc |-> "idle", op |-> "none", k |-> 0, v |-> ZeroVal, r |-> <<>>,
         snap |-> NoItems, calls |-> NoCalls, found |-> FALSE, val |-> ZeroVal,
         panic |-> FALSE, stale |-> FALSE]
NoLast == [op |-> "none", k |-> 0, found |-> FALSE, val |-> ZeroVal,
           calls |-> NoCalls, panic |-> FALSE, stale |-> FALSE]
Done(op, k, res) ==
    [op |-> op, k |-> k, found |-> res.found, val |-> res.val,
     calls |-> res.calls, panic |-> res.panic, stale |-> res.stale]

Init ==
    /\ handle = "none"
    /\ size = 0
    /\ ttl = 0
    /\ items = NoItems
    /\ now = 0
    /\ last = NoLast
    /\ mu = 0
    /\ th = [t \in Threads |-> Idle]
    /\ seen = {}
    /\ written = <<>>
    /\ alt = [c |-> NoLru, last |-> NoLast]

\* New: makeItems(size) panics in make([]*item, 0, size) when size < 0;
\* nothing else looks at size
New(sz, d) ==
    /\ handle = "none"
    /\ handle' = IF sz < 0 THEN "failed" ELSE "ok"
    /\ size' = IF sz < 0 THEN size ELSE sz
    /\ ttl' = IF sz < 0 THEN ttl ELSE d
    /\ last' = [NoLast EXCEPT !.op = "New", !.panic = sz < 0]
    /\ UNCHANGED <<items, now, mu, th, seen, written, alt>>

Put(k, v) ==
    /\ handle = "ok"
    /\ LET res == PutOp(items, size, ttl, k, v, Instant)
       IN  /\ items' = res.is
           /\ last' = Done("Put", k, res)
    /\ UNCHANGED <<handle, size, ttl, now, mu, th, seen, written, alt>>

Get(k) ==
    /\ handle = "ok"
    /\ LET res == GetOp(items, ttl, k, Instant)
       IN  /\ items' = res.is
           /\ last' = Done("Get", k, res)
    /\ UNCHANGED <<handle, size, ttl, now, mu, th, seen, written, alt>>

Remove(k) ==
    /\ handle = "ok"
    /\ LET res == RemoveOp(items, k, Instant)
       IN  /\ items' = res.is
           /\ last' = Done("Remove", k, res)
    /\ UNCHANGED <<handle, size, ttl, now, mu, th, seen, written, alt>>

\* time passes between calls
Tick ==
    /\ now < MaxTime
    /\ now' = now + 1
    /\ last' = [NoLast EXCEPT !.op = "Tick"]
    /\ UNCHANGED <<handle, size, ttl, items, mu, th, seen, written, alt>>

Next ==
    \/ \E sz \in Sizes : New(sz, TTL)
    \/ \E k \in Keys, v \in Vals : Put(k, v)
    \/ \E k \in Keys : Get(k)
    \/ \E k \in Keys : Remove(k)
    \/ Tick

Spec == Init /\ [][Next]_vars

\* ------------------------------------------------------ Put calls alone
\* SpecP: a cache that is only ever Put to, with the clock ticking between
\* the calls; seen records the keys of the calls made.
PutOnly(k, v) ==
    /\ handle = "ok"
    /\ LET res == PutOp(items, size, ttl, k, v, Instant)
       IN  /\ items' = res.is
           /\ last' = Done("Put", k, res)
    /\ seen' = seen \cup {k}
    /\ UNCHANGED <<handle, size, ttl, now, mu, th, written, alt>>

NextP ==
    \/ \E sz \in Sizes : New(sz, TTL)
    \/ \E k \in Keys, v \in Vals : PutOnly(k, v)
    \/ Tick

SpecP == Init /\ [][NextP]_vars

\* ------------------------------------------------- what was written
\* SpecH: Spec, with written recording the value each Put hands over, for
\* as long as the key stays resident.
PutH(k, v) ==
    /\ handle = "ok"
    /\ LET res == PutOp(items, size, ttl, k, v, Instant)
       IN  /\ items' = res.is
           /\ last' = Done("Put", k, res)
           /\ written' = [j \in Resident(res.is) |-> IF j = k THEN v ELSE written[j]]
    /\ UNCHANGED <<handle, size, ttl, now, mu, th, seen, alt>>

RemoveH(k) ==
    /\ handle = "ok"
    /\ LET res == RemoveOp(items, k, Instant)
       IN  /\ items' = res.is
           /\ last' = Done("Remove", k, res)
           /\ written' = [j \in Resident(res.is) |-> written[j]]
    /\ UNCHANGED <<handle, size, ttl, now, mu, th, seen, alt>>

NextH ==
    \/ \E sz \in Sizes : New(sz, TTL)
    \/ \E k \in Keys, v \in Vals : PutH(k, v)
    \/ \E k \in Keys : Get(k)
    \/ \E k \in Keys : RemoveH(k)
    \/ Tick

SpecH == Init /\ [][NextH]_vars

\* ------------------------------- the lru-item + value-map design
\* src/lru.go: Cache.items is a map[K]cacheItem (a pointer to the key's
\* lruItem and the value), Cache.lru a priorityQueue of *lruItem.  The heap
\* code is that of the shared-entry design: priorityQueue.Less and .Swap read
\* as items.Less and items.Swap and container/heap is the same, so Less,
\* Swap, up, down, HeapFix and HeapRemoveSift serve both; Push and Pop differ
\* (no key map inside the queue).  c is [items, pq, mem].

\* New(size, ttl) takes no callback and sets none: c.onEvicted is nil, and
\* calling it panics (nil func value)
onEvictedNil == TRUE

\* priorityQueue.Push: item.index = n; *pq = append(*pq, item)
pqPush(c, x) ==
    [c EXCEPT !.mem = [@ EXCEPT ![x].index = Len(c.pq)], !.pq = Append(@, x)]

\* priorityQueue.Pop: item = old[n-1]; item.index = -1; *pq = old[0 : n-1]
pqPop(c) ==
    LET x == c.pq[Len(c.pq)]
    IN  [is |-> [c EXCEPT !.mem = [@ EXCEPT ![x].index = 0 - 1],
                          !.pq = SubSeq(@, 1, Len(c.pq) - 1)],
         x |-> x]

lruHeapPush(c, x, t) == up(pqPush(c, x), Len(c.pq), t)
lruHeapPop(c, t) ==
    LET n == Len(c.pq) - 1
    IN  pqPop(down(Swap(c, 0, n), 0, n, t).is)
lruHeapRemove(c, i, t) == pqPop(HeapRemoveSift(c, i, t))

\* what a helper leaves: the cache, the callback's arguments, a panic
Left3(c, calls, panic) == [c |-> c, calls |-> calls, panic |-> panic]

\* delete(c.items, k), the lruItem going out of scope with it
lruForget(c, k) ==
    [c EXCEPT !.items = Without(@, k), !.mem = Without(@, c.items[k].lruItem)]

\* evict: heap.Pop(&c.lru); item := c.items[evict.k]; c.onEvicted(item.v);
\* delete(c.items, evict.k).  heap.Pop on an empty queue panics.
lruEvict(c, t) ==
    IF Len(c.pq) = 0
    THEN Left3(c, NoCalls, TRUE)
    ELSE LET p == lruHeapPop(c, t)
             k == p.is.mem[p.x].k
         IN  IF onEvictedNil
             THEN Left3(p.is, NoCalls, TRUE)
             ELSE Left3(lruForget(p.is, k), <<c.items[k].v>>, FALSE)

\* refresh: item.lruItem.expire = time.Now().Add(c.ttl);
\* heap.Fix(&c.lru, item.lruItem.index)
lruRefresh(c, k, d, t1, t2) ==
    LET x == c.items[k].lruItem
        bumped == [c EXCEPT !.mem = [@ EXCEPT ![x].expire = t1 + d]]
    IN  HeapFix(bumped, bumped.mem[x].index, t2)

\* update: item.v = v; c.items[item.lruItem.k] = item; c.refresh(item)
lruUpdate(c, k, v, d, t1, t2) ==
    lruRefresh([c EXCEPT !.items = [@ EXCEPT ![k].v = v]], k, d, t1, t2)

\* add: c.items[item.lruItem.k] = item; heap.Push(&c.lru, item.lruItem)
lruAdd(c, k, v, x, t) ==
    lruHeapPush([c EXCEPT !.items = With(@, k, [lruItem |-> x, v |-> v])], x, t)

\* delete: heap.Remove(&c.lru, item.lruItem.index); c.onEvicted(item.v);
\* delete(c.items, item.lruItem.k).  heap.Remove(-1) panics (index out of
\* range in Swap, or in Pop when the queue is empty) before it changes
\* anything.
lruDelete(c, k, t) ==
    LET x == c.items[k].lruItem
        i == c.mem[x].index
    IN  IF i < 0
        THEN Left3(c, NoCalls, TRUE)
        ELSE LET p == lruHeapRemove(c, i, t)
             IN  IF onEvictedNil
                 THEN Left3(p.is, NoCalls, TRUE)
                 ELSE Left3(lruForget(p.is, k), <<c.items[k].v>>, FALSE)

\* &lruItem[K]{k: k, expire: time.Now().Add(c.ttl)}
lruAlloc(c, x, k, e) ==
    [c EXCEPT !.mem = With(@, x, [k |-> k, expire |-> e, index |-> 0])]

\* Cache.Put of src/lru.go, without the lock
lruPutOp(c, sz, d, k, v, r) ==
    IF k \in DOMAIN c.items
    THEN Result(lruUpdate(c, k, v, d, r[1], r[2]), NoCalls, FALSE, ZeroVal, FALSE, FALSE)
    ELSE IF Cardinality(DOMAIN c.items) = sz
         THEN LET e == lruEvict(c, r[1])
                  x == NewId(e.c, k)
              IN  IF e.panic
                  THEN Result(e.c, e.calls, FALSE, ZeroVal, TRUE, FALSE)
                  ELSE Result(lruAdd(lruAlloc(e.c, x, k, r[2] + d), k, v, x, r[3]),
                              e.calls, FALSE, ZeroVal, FALSE, FALSE)
         ELSE LET x == NewId(c, k)
              IN  Result(lruAdd(lruAlloc(c, x, k, r[1] + d), k, v, x, r[2]),
                         NoCalls, FALSE, ZeroVal, FALSE, FALSE)

\* Cache.Get of src/lru.go, without the lock
lruGetOp(c, d, k, r) ==
    IF k \notin DOMAIN c.items
    THEN Result(c, NoCalls, FALSE, ZeroVal, FALSE, FALSE)
    ELSE Result(lruRefresh(c, k, d, r[1], r[2]), NoCalls, TRUE, c.items[k].v, FALSE, FALSE)

\* Cache.Remove of src/lru.go, without the lock
lruRemoveOp(c, k, r) ==
    IF k \notin DOMAIN c.items
    THEN Result(c, NoCalls, FALSE, ZeroVal, FALSE, FALSE)
    ELSE LET p == lruDelete(c, k, r[1])
         IN  Result(p.c, p.calls, FALSE, ZeroVal, p.panic, FALSE)

\* SpecE: the two designs side by side, given the same calls at the same
\* clock readings.  A call that panics is recovered by the caller (the
\* deferred Unlock has run) and the run goes on.
NewE(sz, d) ==
    /\ handle = "none"
    /\ handle' = IF sz < 0 THEN "failed" ELSE "ok"
    /\ size' = IF sz < 0 THEN size ELSE sz
    /\ ttl' = IF sz < 0 THEN ttl ELSE d
    /\ last' = [NoLast EXCEPT !.op = "New", !.panic = sz < 0]
    /\ alt' = [c |-> NoLru, last |-> [NoLast EXCEPT !.op = "New"]]
    /\ UNCHANGED <<items, now, mu, th, seen, written>>

PutE(k, v) ==
    /\ handle = "ok"
    /\ LET res == PutOp(items, size, ttl, k, v, Instant)
           res2 == lruPutOp(alt.c, size, ttl, k, v, Instant)
       IN  /\ items' = res.is
           /\ last' = Done("Put", k, res)
           /\ alt' = [c |-> res2.is, last |-> Done("Put", k, res2)]
    /\ UNCHANGED <<handle, size, ttl, now, mu, th, seen, written>>

GetE(k) ==
    /\ handle = "ok"
    /\ LET res == GetOp(items, ttl, k, Instant)
           res2 == lruGetOp(alt.c, ttl, k, Instant)
       IN  /\ items' = res.is
           /\ last' = Done("Get", k, res)
           /\ alt' = [c |-> res2.is, last |-> Done("Get", k, res2)]
    /\ UNCHANGED <<handle, size, ttl, now, mu, th, seen, written>>

RemoveE(k) ==
    /\ handle = "ok"
    /\ LET res == RemoveOp(items, k, Instant)
           res2 == lruRemoveOp(alt.c, k, Instant)
       IN  /\ items' = res.is
           /\ last' = Done("Remove", k, res)
           /\ alt' = [c |-> res2.is, last |-> Done("Remove", k, res2)]
    /\ UNCHANGED <<handle, size, ttl, now, mu, th, seen, written>>

NextE ==
    \/ \E sz \in Sizes : NewE(sz, TTL)
    \/ \E k \in Keys, v \in Vals : PutE(k, v)
    \/ \E k \in Keys : GetE(k)
    \/ \E k \in Keys : RemoveE(k)
    \/ Tick

SpecE == Init /\ [][NextE]_vars

\* ------------------------------------------------- concurrent callers
\* SpecC: each caller runs Put/Get/Remove as the code does, c.mu.Lock()
\* first, the body in steps, the deferred c.mu.Unlock() last.  The clock may
\* tick between any two steps, and each step that calls time.Now() takes its
\* own reading (th[t].r lists them).  th[t].snap is the cache as the caller
\* found it when it got the lock.

\* c.mu.Lock() returns only when the mutex is free
MuIgnored == TRUE
MuFree == mu = 0

Me(t) == th[t]
Read(t) == Append(Me(t).r, now)

\* sync.Mutex records no owner: Lock by the goroutine that holds it waits
\* like any other
CanLockReentrant(t) == mu \in {0, t}
CanLock(t) == MuFree

\* c.mu.Lock() of a call op(k, v), by a caller outside the cache or by an
\* onEvicted callback that calls back into it (pc "callback"; the nested
\* call's frame takes the place of the caller's)
Lock(t, op, k, v) ==
    /\ handle = "ok"
    /\ Me(t).pc \in {"idle", "callback"}
    /\ CanLock(t)
    /\ mu' = t
    /\ th' = [th EXCEPT ![t] = [Idle EXCEPT !.pc = "locked", !.op = op, !.k = k,
                                            !.v = v, !.snap = items]]
    /\ UNCHANGED <<handle, size, ttl, items, now, last, seen, written, alt>>

Holds(t, pc, op) == Me(t).pc = pc /\ Me(t).op = op

\* Put, key resident: update sets item.v, refresh sets item.expire
PutUpdate(t) ==
    /\ Holds(t, "locked", "Put")
    /\ Me(t).k \in Resident(items)
    /\ LET x == items.keyToItem[Me(t).k]
       IN  /\ items' = [items EXCEPT !.mem = [@ EXCEPT ![x].v = Me(t).v,
                                                      ![x].expire = now + ttl]]
           /\ th' = [th EXCEPT ![t].pc = "fix", ![t].r = Read(t),
                               ![t].stale = Expired(items.mem[x], now)]
    /\ UNCHANGED <<handle, size, ttl, now, last, mu, seen, written, alt>>

\* Put, key new, cache full: evict (heap.Pop, then the callback)
PutEvict(t) ==
    /\ Holds(t, "locked", "Put")
    /\ Me(t).k \notin Resident(items)
    /\ AtCapacity(items, size)
    /\ LET e == evict(items, now)
       IN  /\ ~e.panic
           /\ items' = e.is
           /\ th' = [th EXCEPT ![t].pc = "alloc", ![t].r = Read(t),
                               ![t].calls = e.calls, ![t].stale = e.stale]
    /\ UNCHANGED <<handle, size, ttl, now, last, mu, seen, written, alt>>

\* Put, key new, cache full and empty (size 0): heap.Pop panics, the
\* deferred Unlock runs
PutPanic(t) ==
    /\ Holds(t, "locked", "Put")
    /\ Me(t).k \notin Resident(items)
    /\ AtCapacity(items, size)
    /\ evict(items, now).panic
    /\ th' = [th EXCEPT ![t].pc = "unlock", ![t].r = Read(t), ![t].panic = TRUE]
    /\ UNCHANGED <<handle, size, ttl, items, now, last, mu, seen, written, alt>>

\* the new item, and the first half of items.Push: index and map entry
AllocStep(t) ==
    LET x == NewId(items, Me(t).k)
        a == Alloc(items, x, Me(t).k, Me(t).v, now + ttl)
    IN  /\ items' = itemsPushMap(itemsPushIndex(a, x), x)
        /\ th' = [th EXCEPT ![t].pc = "append", ![t].r = Read(t)]
        /\ UNCHANGED <<handle, size, ttl, now, last, mu, seen, written, alt>>

\* Put, key new, room left
PutAlloc(t) ==
    /\ Holds(t, "locked", "Put")
    /\ Me(t).k \notin Resident(items)
    /\ ~AtCapacity(items, size)
    /\ AllocStep(t)

\* Put, after the eviction
PutAllocAfterEvict(t) ==
    /\ Holds(t, "alloc", "Put")
    /\ AllocStep(t)

\* the second half of items.Push, then heap.Push's up
PushAppend(t) ==
    /\ Holds(t, "append", "Put")
    /\ LET x == items.keyToItem[Me(t).k]
       IN  items' = up(itemsPushAppend(items, x), ItemsLen(items), now)
    /\ th' = [th EXCEPT ![t].pc = "unlock", ![t].r = Read(t)]
    /\ UNCHANGED <<handle, size, ttl, now, last, mu, seen, written, alt>>

\* heap.Fix of refresh
Fix(t) ==
    /\ Me(t).pc = "fix"
    /\ items' = HeapFix(items, ItemOf(items, Me(t).k).index, now)
    /\ th' = [th EXCEPT ![t].pc = "unlock", ![t].r = Read(t)]
    /\ UNCHANGED <<handle, size, ttl, now, last, mu, seen, written, alt>>

GetMiss(t) ==
    /\ Holds(t, "locked", "Get")
    /\ Me(t).k \notin Resident(items)
    /\ th' = [th EXCEPT ![t].pc = "unlock", ![t].r = Read(t)]
    /\ UNCHANGED <<handle, size, ttl, items, now, last, mu, seen, written, alt>>

\* Get, key resident: refresh sets item.expire; item.v is what is returned
GetRefresh(t) ==
    /\ Holds(t, "locked", "Get")
    /\ Me(t).k \in Resident(items)
    /\ LET x == items.keyToItem[Me(t).k]
       IN  /\ items' = [items EXCEPT !.mem = [@ EXCEPT ![x].expire = now + ttl]]
           /\ th' = [th EXCEPT ![t].pc = "fix", ![t].r = Read(t),
                               ![t].found = TRUE, ![t].val = items.mem[x].v,
                               ![t].stale = Expired(items.mem[x], now)]
    /\ UNCHANGED <<handle, size, ttl, now, last, mu, seen, written, alt>>

RemoveMiss(t) ==
    /\ Holds(t, "locked", "Remove")
    /\ Me(t).k \notin Resident(items)
    /\ th' = [th EXCEPT ![t].pc = "unlock", ![t].r = Read(t)]
    /\ UNCHANGED <<handle, size, ttl, items, now, last, mu, seen, written, alt>>

\* Remove, key resident: heap.Remove up to the first half of items.Pop
RemoveSift(t) ==
    /\ Holds(t, "locked", "Remove")
    /\ Me(t).k \in Resident(items)
    /\ LET x == items.keyToItem[Me(t).k]
       IN  /\ items' = itemsPopShrink(HeapRemoveSift(items, items.mem[x].index, now))
           /\ th' = [th EXCEPT ![t].pc = "popdel", ![t].r = Read(t),
                               ![t].stale = Expired(items.mem[x], now)]
    /\ UNCHANGED <<handle, size, ttl, now, last, mu, seen, written, alt>>

\* the second half of items.Pop, then the callback of delete
PopDelete(t) ==
    /\ Holds(t, "popdel", "Remove")
    /\ LET x == items.keyToItem[Me(t).k]
       IN  /\ items' = Free(itemsPopDelete(items, x), x)
           /\ th' = [th EXCEPT ![t].pc = "unlock", ![t].calls = <<items.mem[x].v>>]
    /\ UNCHANGED <<handle, size, ttl, now, last, mu, seen, written, alt>>

\* the deferred c.mu.Unlock(), and the return
Unlock(t) ==
    /\ Me(t).pc = "unlock"
    /\ mu' = 0
    /\ last' = Done(Me(t).op, Me(t).k, Me(t))
    /\ th' = [th EXCEPT ![t] = Idle]
    /\ UNCHANGED <<handle, size, ttl, items, now, seen, written, alt>>

TickC ==
    /\ now < ConcMaxTime
    /\ now' = now + 1
    /\ UNCHANGED <<handle, size, ttl, items, last, mu, th, seen, written, alt>>

NextC ==
    \/ \E sz \in ConcSizes : New(sz, TTL)
    \/ \E t \in Threads, k \in ConcKeys, v \in Vals : Lock(t, "Put", k, v)
    \/ \E t \in Threads, k \in ConcKeys : Lock(t, "Get", k, ZeroVal)
    \/ \E t \in Threads, k \in ConcKeys : Lock(t, "Remove", k, ZeroVal)
    \/ \E t \in Threads : PutUpdate(t)
    \/ \E t \in Threads : PutEvict(t)
    \/ \E t \in Threads : PutPanic(t)
    \/ \E t \in Threads : PutAlloc(t)
    \/ \E t \in Threads : PutAllocAfterEvict(t)
    \/ \E t \in Threads : PushAppend(t)
    \/ \E t \in Threads : Fix(t)
    \/ \E t \in Threads : GetMiss(t)
    \/ \E t \in Threads : GetRefresh(t)
    \/ \E t \in Threads : RemoveMiss(t)
    \/ \E t \in Threads : RemoveSift(t)
    \/ \E t \in Threads : PopDelete(t)
    \/ \E t \in Threads : Unlock(t)
    \/ TickC

SpecC == Init /\ [][NextC]_vars

\* -------------------------------------------- callbacks that misbehave
\* SpecD: SpecC, and an onEvicted that does not simply return.  The callback
\* is the caller's code: each time it is invoked it may return (the steps of
\* SpecC), panic, or call Put, Get or Remove on the cache that invoked it.

\* Put -> evict: heap.Pop, then c.onEvicted(evict.v) ends as told
EvictThen(t, pc, panic) ==
    /\ Holds(t, "locked", "Put")
    /\ Me(t).k \notin Resident(items)
    /\ AtCapacity(items, size)
    /\ LET e == evict(items, now)
       IN  /\ ~e.panic
           /\ items' = e.is
           /\ th' = [th EXCEPT ![t].pc = pc, ![t].r = Read(t), ![t].calls = e.calls,
                               ![t].stale = e.stale, ![t].panic = panic]
    /\ UNCHANGED <<handle, size, ttl, now, last, mu, seen, written, alt>>

\* Remove -> delete: the end of heap.Remove, then c.onEvicted(item.v) ends as told
DeleteThen(t, pc, panic) ==
    /\ Holds(t, "popdel", "Remove")
    /\ LET x == items.keyToItem[Me(t).k]
       IN  /\ items' = Free(itemsPopDelete(items, x), x)
           /\ th' = [th EXCEPT ![t].pc = pc, ![t].calls = <<items.mem[x].v>>,
                               ![t].panic = panic]
    /\ UNCHANGED <<handle, size, ttl, now, last, mu, seen, written, alt>>

\* the callback calls back into the cache: it is now at a c.mu.Lock()
PutEvictReenter(t) == EvictThen(t, "callback", FALSE)
RemoveReenter(t) == DeleteThen(t, "callback", FALSE)

\* the callback panics: the panic unwinds through evict / delete to the
\* deferred c.mu.Unlock() of Put / Remove
PutEvictSkipsUnlock(t) == EvictThen(t, "idle", TRUE)
PutEvictCallbackPanic(t) == EvictThen(t, "unlock", TRUE)
RemoveCallbackPanic(t) == DeleteThen(t, "unlock", TRUE)

NextD ==
    \/ NextC
    \/ \E t \in Threads : PutEvictReenter(t)
    \/ \E t \in Threads : RemoveReenter(t)
    \/ \E t \in Threads : PutEvictCallbackPanic(t)
    \/ \E t \in Threads : RemoveCallbackPanic(t)

SpecD == Init /\ [][NextD]_vars

\* ------------------------------------------------------- observations
AnyExpired(is, t) == \E x \in Objects(is) : Expired(is.mem[x], t)
\* the keys whose entries were resident before the step and are not after it
\* (a resident key keeps its object: Put on it updates the object in place)
Left == Resident(items) \ Resident(items')
Live == handle = "ok" /\ handle' = "ok"
\* the step is a Put of a key that was not resident, finding the cache full
PutAtCapacity ==
    /\ Live /\ size > 0
    /\ last'.op = "Put" /\ last'.k \notin Resident(items)
    /\ ItemsLen(items) = size

\* C1: for a cache built with capacity > 0, after every completed call and
\* clock advance the number of resident entries (in the heap and in the map)
\* is at most the capacity.
C1_CapacityBound ==
    (handle = "ok" /\ size > 0) =>
        /\ ItemsLen(items) <= size
        /\ Cardinality(Resident(items)) <= size

\* a Put that found the cache full has evicted and left it full
C1_Witness ==
    /\ handle = "ok" /\ size > 0
    /\ last.op = "Put" /\ last.calls # NoCalls
    /\ ItemsLen(items) = size

\* C2: after any completed call the keys of the Key Index are the keys of the
\* entries in the heap array, each key is held by exactly one heap slot, and
\* the map entry of a key is the very object in that slot.
C2_Bijection ==
    handle = "ok" =>
        /\ Resident(items) = {items.mem[x].k : x \in Objects(items)}
        /\ \A i, j \in 1..ItemsLen(items) :
              items.mem[items.pq[i]].k = items.mem[items.pq[j]].k => i = j
        /\ \A k \in Resident(items) :
              /\ items.keyToItem[k] \in Objects(items)
              /\ ItemOf(items, k).k = k

\* a Remove took one of two residents out, from both indexes
C2_Witness ==
    /\ handle = "ok"
    /\ last.op = "Remove" /\ last.calls # NoCalls
    /\ ItemsLen(items) >= 1
    /\ last.k \notin Resident(items)

\* C3: the callback is invoked exactly once for each entry that leaves the
\* cache, with the value the entry held, and never by Get, by Put on a
\* resident key, by Put below capacity or by Remove of an absent key.
C3_CallbackOncePerRemoval ==
    [][Live =>
        /\ Len(last'.calls) = Cardinality(Left)
        /\ \A k \in Left : last'.calls = <<ItemOf(items, k).v>>
        /\ last'.op = "Get" => last'.calls = NoCalls
        /\ (last'.op = "Put" /\ last'.k \in Resident(items)) => last'.calls = NoCalls
        /\ (last'.op = "Put" /\ ItemsLen(items) < size) => last'.calls = NoCalls
        /\ (last'.op = "Remove" /\ last'.k \notin Resident(items)) => last'.calls = NoCalls
        /\ (last'.op = "Remove" /\ last'.k \in Resident(items)) =>
              last'.calls = <<ItemOf(items, last'.k).v>>
        /\ PutAtCapacity => Len(last'.calls) = 1
      ]_vars

\* a capacity eviction has handed the callback a value
C3_Witness ==
    /\ handle = "ok"
    /\ last.op = "Put" /\ Len(last.calls) = 1
    /\ ItemsLen(items) >= 2

\* C4: when a Put of a new key finds the cache full and no resident is
\* expired, the entry evicted has the smallest expire_at of the residents; so
\* an entry whose expire_at is strictly the largest (the one refreshed last)
\* stays while another resident exists.  After a Get hit the entry read has
\* the largest expire_at.
C4_EvictsOldest ==
    [][/\ (PutAtCapacity /\ ~AnyExpired(items, now)) =>
            /\ \E k \in Left :
                  \A y \in Objects(items) : ItemOf(items, k).expire <= items.mem[y].expire
            /\ \A k \in Resident(items) :
                  (\A j \in Resident(items) \ {k} :
                        ItemOf(items, j).expire < ItemOf(items, k).expire)
                  /\ ItemsLen(items) >= 2
                  => k \in Resident(items')
       /\ (Live /\ last'.op = "Get" /\ last'.found) =>
            \A y \in Objects(items') :
                items'.mem[y].expire <= ItemOf(items', last'.k).expire
      ]_vars

\* a Put has evicted an unexpired entry and kept one that expires later than
\* others could: the residents' expire_at differ
C4_Witness ==
    /\ handle = "ok" /\ size >= 2
    /\ last.op = "Put" /\ Len(last.calls) = 1 /\ ~last.stale
    /\ ~AnyExpired(items, now)
    /\ \E x, y \in Objects(items) : items.mem[x].expire < items.mem[y].expire

\* C5: when a Put of a new key finds the cache full and some resident is
\* expired, the entry evicted is an expired one.
C5_EvictsExpiredFirst ==
    [][(PutAtCapacity /\ AnyExpired(items, now)) =>
            /\ Left # {}
            /\ \A k \in Left : Expired(ItemOf(items, k), now)
      ]_vars

\* a Put has evicted an expired entry and kept an older-than-new unexpired one
C5_Witness ==
    /\ handle = "ok" /\ size >= 2
    /\ last.op = "Put" /\ Len(last.calls) = 1 /\ last.stale
    /\ \E k \in Resident(items) \ {last.k} : ~Expired(ItemOf(items, k), now)

\* C6: New with capacity <= 0 returns no cache: every cache there is has a
\* positive capacity.
C6_NoNonPositiveCapacity == handle = "ok" => size > 0

\* C7: Put(k, v) on a resident key sets its value to v and its expire_at to
\* now + ttl and changes nothing else: same resident keys, same objects, same
\* size, nothing evicted, no callback, every other entry as it was.
C7_PutResidentFrame ==
    [][(Live /\ last'.op = "Put" /\ last'.k \in Resident(items)) =>
        LET k == last'.k
        IN  \A v \in Vals :
              Put(k, v) =>
                /\ Resident(items') = Resident(items)
                /\ items'.keyToItem = items.keyToItem
                /\ ItemsLen(items') = ItemsLen(items)
                /\ ItemOf(items', k).v = v
                /\ ItemOf(items', k).expire = now + ttl
                /\ last'.calls = NoCalls /\ ~last'.panic
                /\ \A j \in Resident(items) \ {k} :
                      /\ ItemOf(items', j).v = ItemOf(items, j).v
                      /\ ItemOf(items', j).expire = ItemOf(items, j).expire
      ]_vars

\* a Put on a resident (and expired) key of a full cache: no callback
C7_Witness ==
    /\ handle = "ok" /\ size >= 2
    /\ last.op = "Put" /\ last.calls = NoCalls /\ last.stale
    /\ ItemsLen(items) = size

\* C8: Get(k) on a resident key returns the stored value with found = true
\* and sets expire_at to now + ttl, also when the entry had expired; after it
\* the entry is not expired, and it is not at the root (the next victim)
\* while another resident is expired or expires earlier.
C8_GetRefreshes ==
    [][(Live /\ last'.op = "Get" /\ last'.k \in Resident(items)) =>
        LET k == last'.k
        IN  Get(k) =>
              /\ last'.found
              /\ last'.val = ItemOf(items, k).v
              /\ ItemOf(items', k).v = ItemOf(items, k).v
              /\ ItemOf(items', k).expire = now + ttl
              /\ ~Expired(ItemOf(items', k), now')
              /\ (\E j \in Resident(items') \ {k} :
                      \/ Expired(ItemOf(items', j), now')
                      \/ ItemOf(items', j).expire < ItemOf(items', k).expire)
                 => items'.pq[1] # items'.keyToItem[k]
      ]_vars

\* a Get hit on an entry that had expired, with another resident beside it
C8_Witness ==
    /\ handle = "ok"
    /\ last.op = "Get" /\ last.found /\ last.stale
    /\ ItemsLen(items) >= 2
    /\ ~Expired(ItemOf(items, last.k), now)

\* C9: Get and Remove of a key that is not resident change nothing (keys,
\* values, expire_at, heap layout, size) and invoke no callback; Get returns
\* the zero value and found = false.  After Remove(k), k is not resident, so
\* a second Remove(k) is such a call.
C9_AbsentNoOp ==
    [][(Live /\ last'.op \in {"Get", "Remove"}) =>
        LET k == last'.k
        IN  /\ (Get(k) /\ k \notin Resident(items)) =>
                  /\ items' = items
                  /\ ~last'.found /\ last'.val = ZeroVal
                  /\ last'.calls = NoCalls /\ ~last'.panic
            /\ (Remove(k) /\ k \notin Resident(items)) =>
                  /\ items' = items
                  /\ last'.calls = NoCalls /\ ~last'.panic
            /\ Remove(k) => k \notin Resident(items')
      ]_vars

\* a Remove of an absent key on a cache that holds entries: no callback
C9_Witness ==
    /\ handle = "ok"
    /\ last.op = "Remove" /\ last.calls = NoCalls
    /\ ItemsLen(items) >= 1

\* the call of caller t as one atomic operation on the cache it found when it
\* got the lock, with the clock readings it took
Pad(r) == [i \in 1..3 |-> IF i <= Len(r) THEN r[i] ELSE r[Len(r)]]
Atomic(t) ==
    LET c == th[t]
    IN  CASE c.op = "Put" -> PutOp(c.snap, size, ttl, c.k, c.v, Pad(c.r))
          [] c.op = "Get" -> GetOp(c.snap, ttl, c.k, Pad(c.r))
          [] c.op = "Remove" -> RemoveOp(c.snap, c.k, Pad(c.r))

BijectionOf(is) ==
    /\ Resident(is) = {is.mem[x].k : x \in Objects(is)}
    /\ \A i, j \in 1..ItemsLen(is) : is.mem[is.pq[i]].k = is.mem[is.pq[j]].k => i = j
    /\ \A k \in Resident(is) : is.keyToItem[k] \in Objects(is) /\ ItemOf(is, k).k = k

\* C10: with concurrent callers at most one call is inside the locked
\* section, and it is the holder of the mutex; when a call reaches its
\* Unlock, the cache and the call's results (return values, callback
\* values, panic) are those of the whole operation applied at once to the
\* cache the call found when it got the lock, so the calls take effect one
\* at a time in the order of their Lock; and whenever the mutex is free the
\* bijection and capacity invariants hold.
C10_Linearizable ==
    /\ \A t \in Threads : th[t].pc # "idle" => mu = t
    /\ \A t \in Threads :
          th[t].pc = "unlock" =>
              LET a == Atomic(t)
              IN  /\ items = a.is
                  /\ th[t].calls = a.calls
                  /\ th[t].found = a.found /\ th[t].val = a.val
                  /\ th[t].panic = a.panic
    /\ (mu = 0 /\ handle = "ok") =>
          /\ BijectionOf(items)
          /\ size > 0 => ItemsLen(items) <= size

\* a call holds the mutex in the middle of items.Push or items.Pop, the two
\* indexes disagreeing, after another call has completed
C10_Witness ==
    /\ mu # 0
    /\ ~BijectionOf(items)
    /\ last.op \in {"Put", "Get", "Remove"}

\* C11: onEvicted runs with c.mu held by the call that invoked it.  Once a
\* callback has called Put, Get or Remove on the same cache (it is at the
\* nested c.mu.Lock()), nothing moves but the clock: the caller stays there
\* holding the mutex, its call never completes, and no other caller gets in.
C11_ReentrantCallbackDeadlocks ==
    [][\A t \in Threads :
          th[t].pc = "callback" =>
              /\ mu = t
              /\ th' = th /\ mu' = mu
              /\ last' = last /\ items' = items
      ]_vars

\* a callback invoked by an eviction is waiting for the mutex its own caller
\* holds, the clock has moved on since, and another caller is outside
C11_Witness ==
    \E t \in Threads :
        /\ th[t].pc = "callback" /\ th[t].op = "Put" /\ mu = t
        /\ th[t].calls # NoCalls
        /\ now > th[t].r[Len(th[t].r)]
        /\ \E u \in Threads \ {t} : th[u].pc = "idle"

\* C12: a caller that is outside a call (its call returned, returned early or
\* panicked) does not hold c.mu, so the mutex is held only by a caller inside
\* a call; a call in which a panic was raised (by heap.Pop in evict or by the
\* callback) is at the deferred Unlock, where the Unlock can be taken; and
\* when no call is in progress the mutex is free and any caller can acquire
\* it.
C12_UnlockOnEveryPath ==
    /\ \A t \in Threads : th[t].pc = "idle" => mu # t
    /\ mu # 0 => th[mu].pc # "idle"
    /\ \A t \in Threads : th[t].panic => th[t].pc = "unlock"
    /\ \A t \in Threads : th[t].pc = "unlock" => ENABLED Unlock(t)
    /\ (handle = "ok" /\ \A t \in Threads : th[t].pc = "idle") =>
          /\ mu = 0
          /\ \A u \in Threads : ENABLED Lock(u, "Get", 1, ZeroVal)

\* a call ended by a panic of the callback, and a caller has since acquired
\* the mutex
C12_Witness ==
    /\ last.panic /\ last.calls # NoCalls
    /\ mu # 0 /\ th[mu].pc = "locked"

Min(a, b) == IF a < b THEN a ELSE b

\* C13: on a cache with capacity > 0 that has only been Put to, after each
\* call the number of residents (heap and map) is min(capacity, number of
\* distinct keys put so far); the key just put is resident, no Put panics,
\* and a Put that evicted has left the cache full.
C13_PutOnlyCount ==
    (handle = "ok" /\ size > 0) =>
        /\ ItemsLen(items) = Min(size, Cardinality(seen))
        /\ Cardinality(Resident(items)) = Min(size, Cardinality(seen))
        /\ last.op = "Put" =>
              /\ last.k \in Resident(items) /\ ~last.panic
              /\ last.calls # NoCalls => ItemsLen(items) = size

\* more distinct keys have been put than the cache holds, and a Put below
\* capacity has also happened: capacity 2, three keys seen
C13_Witness ==
    /\ handle = "ok" /\ size >= 2
    /\ Cardinality(seen) > size
    /\ ItemsLen(items) = size
    /\ last.op = "Put" /\ last.calls # NoCalls

\* every parent in the heap array is expired at t or expires no later than
\* its child
HeapOrdered(is, t) ==
    \A j \in 1..(ItemsLen(is) - 1) :
        \/ Expired(At(is, Parent(j)), t)
        \/ At(is, Parent(j)).expire <= At(is, j).expire

\* C14: after every completed call, and after any passage of time since, the
\* heap root is an expired entry if any resident is expired, and otherwise
\* the resident with the smallest expire_at; and every parent in the heap
\* array is expired or has expire_at no later than each of its children.
C14_HeapOrder ==
    handle = "ok" =>
        /\ HeapOrdered(items, now)
        /\ ItemsLen(items) > 0 =>
              IF AnyExpired(items, now)
              THEN Expired(At(items, 0), now)
              ELSE \A x \in Objects(items) : At(items, 0).expire <= items.mem[x].expire

\* time has passed since the last call and has expired some residents but
\* not all of them
C14_Witness ==
    /\ handle = "ok" /\ last.op = "Tick"
    /\ ItemsLen(items) >= 2
    /\ AnyExpired(items, now)
    /\ \E x \in Objects(items) : ~Expired(items.mem[x], now)

\* the index stored in every entry of the heap array is its position
IndexesRight(is) == \A i \in 0..(ItemsLen(is) - 1) : At(is, i).index = i

\* C15: after every completed Put, Get or Remove the index stored in each
\* resident entry is the entry's position in the heap array, so that
\* heap.Fix(item.index) and heap.Remove(item.index) act on the entry looked
\* up: the entry heap.Remove takes out is the one found under the key, the
\* one heap.Pop takes out is the root, and either leaves with index -1.
C15_IndexIsPosition ==
    [][Live =>
        /\ IndexesRight(items')
        /\ \A k \in Resident(items') :
              items'.pq[ItemOf(items', k).index + 1] = items'.keyToItem[k]
        /\ (last'.op = "Remove" /\ last'.k \in Resident(items)) =>
              LET p == HeapRemove(items, ItemOf(items, last'.k).index, now)
              IN  /\ p.x = items.keyToItem[last'.k]
                  /\ p.is.mem[p.x].index = 0 - 1
                  /\ p.x \notin Objects(p.is)
        /\ PutAtCapacity =>
              LET p == HeapPop(items, now)
              IN  /\ p.x = items.pq[1]
                  /\ p.is.mem[p.x].index = 0 - 1
                  /\ p.x \notin Objects(p.is)
      ]_vars

\* a Get has refreshed an expired entry that was at the root, and heap.Fix
\* has moved it below an unexpired one
C15_Witness ==
    /\ handle = "ok" /\ ItemsLen(items) >= 2
    /\ last.op = "Get" /\ last.found /\ last.stale
    /\ ItemOf(items, last.k).index >= 1
    /\ \A j \in Resident(items) \ {last.k} : ~Expired(ItemOf(items, j), now)

\* C16: the passage of time changes nothing in the cache and invokes no
\* callback.  An entry leaves only by a Remove of its key or by the eviction
\* of a Put of a new key into a full cache, expired or not: a Get of an
\* expired entry finds it, a resident's value changes only by a Put on its
\* key, and no step other than a Remove takes an entry out of a cache that
\* is below capacity.
C16_NoSweep ==
    [][Live =>
        /\ last'.op = "Tick" => (items' = items /\ last'.calls = NoCalls)
        /\ \A k \in Left :
              \/ last'.op = "Remove" /\ last'.k = k
              \/ PutAtCapacity
        /\ \A k \in Resident(items) \cap Resident(items') :
              \/ last'.op = "Put" /\ last'.k = k
              \/ ItemOf(items', k).v = ItemOf(items, k).v
        /\ (last'.op = "Get" /\ last'.k \in Resident(items)) =>
              /\ last'.found /\ last'.val = ItemOf(items, last'.k).v
              /\ last'.calls = NoCalls
              /\ Resident(items') = Resident(items)
        /\ (ItemsLen(items) < size /\ last'.op # "Remove") => Left = {}
      ]_vars

\* time has passed and every entry of a cache below capacity has expired;
\* they are all still there
C16_Witness ==
    /\ handle = "ok" /\ last.op = "Tick"
    /\ ItemsLen(items) >= 1 /\ ItemsLen(items) < size
    /\ \A x \in Objects(items) : Expired(items.mem[x], now)

\* C17: on a cache built with capacity > 0 no call panics: evict is reached
\* only from a Put of a new key that finds Len() == size, the heap then
\* holds at least one entry, heap.Pop has something to pop, and the callback
\* is handed a value only on that path or by Remove.
C17_NoEmptyEvict ==
    [][(Live /\ size > 0) =>
        /\ ~last'.panic
        /\ (last'.op = "Put" /\ last'.k \notin Resident(items) /\ AtCapacity(items, size)) =>
              /\ ItemsLen(items) >= 1
              /\ ~evict(items, now).panic
        /\ (last'.op = "Put" /\ last'.calls # NoCalls) => PutAtCapacity
      ]_vars

\* the smallest valid cache has evicted its only entry to take a new key
C17_Witness ==
    /\ handle = "ok" /\ size = 1
    /\ last.op = "Put" /\ last.calls # NoCalls /\ ~last.panic
    /\ ItemsLen(items) = 1

\* C18: for every resident key the value stored is the value of the latest
\* Put on that key since it became resident, and a Get that finds the key
\* returns that value: nothing but a Put on k (no Get, no call on another
\* key, no heap swap, no eviction of another entry) changes it.
C18_ReadsLastWrite ==
    handle = "ok" =>
        /\ DOMAIN written = Resident(items)
        /\ \A k \in Resident(items) : ItemOf(items, k).v = written[k]
        /\ (last.op = "Get" /\ last.found) =>
              /\ last.k \in Resident(items)
              /\ last.val = written[last.k]

\* a Get hit in a cache that holds different values under different keys,
\* the entry read having been expired and moved in the heap by the refresh
C18_Witness ==
    /\ handle = "ok" /\ ItemsLen(items) >= 2
    /\ last.op = "Get" /\ last.found /\ last.stale
    /\ \E j \in Resident(items) : written[j] # last.val

\* C19: on a cache with capacity > 0, when Put(k, v) returns, k is resident
\* with value v (the value the call was handed, as written records it) and
\* expire_at = now + ttl, and a Get(k) made next returns (v, true).  A Put that found the cache full of other
\* keys has evicted exactly one entry, one that was resident before the call
\* and not k; a Put that did not has evicted none; and every resident other
\* than k keeps its value and its expire_at.
C19_PutPostcondition ==
    [][(Live /\ size > 0 /\ last'.op = "Put") =>
        LET k == last'.k
        IN  /\ k \in Resident(items') /\ k \in DOMAIN written'
            /\ ItemOf(items', k).v = written'[k]
            /\ ItemOf(items', k).expire = now + ttl
            /\ LET g == GetOp(items', ttl, k, Instant)
               IN  g.found /\ g.val = written'[k] /\ g.calls = NoCalls
            /\ k \notin Left
            /\ Cardinality(Left) = IF PutAtCapacity THEN 1 ELSE 0
            /\ Len(last'.calls) = Cardinality(Left)
            /\ Resident(items') = (Resident(items) \ Left) \cup {k}
            /\ \A j \in Resident(items') \ {k} :
                  /\ ItemOf(items', j).v = ItemOf(items, j).v
                  /\ ItemOf(items', j).expire = ItemOf(items, j).expire
      ]_vars

\* a Put has evicted an entry whose value is not the one put, beside a
\* resident that stayed
C19_Witness ==
    /\ handle = "ok" /\ ItemsLen(items) >= 2
    /\ last.op = "Put" /\ Len(last.calls) = 1
    /\ ItemOf(items, last.k).expire = now + ttl
    /\ last.calls[1] # ItemOf(items, last.k).v

\* C20: the lru-item + value-map design and the shared-entry design, given
\* the same capacity, ttl, calls and clock readings, agree after every call:
\* same resident keys with the same values and expire_at, same Get results,
\* the callback invoked at the same calls with the same values (and a call
\* fails in one exactly when it fails in the other).
C20_DesignsAgree ==
    (handle = "ok" /\ last.op \in {"Put", "Get", "Remove"}) =>
        /\ DOMAIN alt.c.items = Resident(items)
        /\ \A k \in Resident(items) \cap DOMAIN alt.c.items :
              /\ alt.c.items[k].v = ItemOf(items, k).v
              /\ alt.c.mem[alt.c.items[k].lruItem].expire = ItemOf(items, k).expire
        /\ alt.last.found = last.found /\ alt.last.val = last.val
        /\ alt.last.calls = last.calls
        /\ alt.last.panic = last.panic

====
